---- MODULE Spec2Model ----
(***************************************************************************)
(* split_prd_into_tasks.py: a PRD markdown document is split into          *)
(* sections, seeds, de-duplicated seeds and tasks, which are written as    *)
(* task files plus one index file.                                         *)
(*                                                                         *)
(* Text is modelled as TLA+ strings (sequences of characters); every       *)
(* regular expression of the script is an operator that scans the string   *)
(* the way Python's re module does for that pattern.                       *)
(***************************************************************************)
EXTENDS Integers, Sequences, FiniteSets, TLC

VARIABLES
    pc,          \* position of main (or of the function under check)
    argv,        \* the command line: prd file content or NoFile, prefix, state
    markdown,    \* main: markdown
    sections,    \* main: sections
    sec_i,       \* main: index of the section the seed loop is at
    all_seeds,   \* main: all_seeds
    seeds,       \* main: seeds (after deduplicate)
    tasks,       \* build_tasks: tasks
    fs,          \* the files written so far, in write order
    status,      \* the exit status of the process (None before it ends)
    arg,         \* argument of the function under check
    ret          \* its return value

vars == <<pc, argv, markdown, sections, sec_i, all_seeds, seeds, tasks, fs,
          status, arg, ret>>

-----------------------------------------------------------------------------
(* Characters and elementary string functions                              *)

\* v bound to a name: F is applied to the value of v, which is computed once
With(v, F(_)) == CHOOSE r \in {F(b) : b \in {v}} : TRUE

\* the character at index i, or the empty string when there is none
Ch(s, i) == IF i >= 1 /\ i <= Len(s) THEN SubSeq(s, i, i) ELSE ""

\* Python's \s and str.strip() whitespace, restricted to the characters used
Whitespace == {" ", "\t", "\n", "\r"}
\* str.splitlines() boundaries, restricted to the characters used
LineBreaks == {"\n", "\r"}
LowerLetters == "abcdefghijklmnopqrstuvwxyz"
UpperLetters == "ABCDEFGHIJKLMNOPQRSTUVWXYZ"
DigitChars == "0123456789"
Digits == {Ch(DigitChars, i) : i \in 1..Len(DigitChars)}
LowerSet == {Ch(LowerLetters, i) : i \in 1..Len(LowerLetters)}
UpperSet == {Ch(UpperLetters, i) : i \in 1..Len(UpperLetters)}

\* str.lower() and str.upper() of one character (ASCII)
LowerOf == [c \in UpperSet |->
               Ch(LowerLetters, CHOOSE i \in 1..Len(UpperLetters) : Ch(UpperLetters, i) = c)]
UpperOf == [c \in LowerSet |->
               Ch(UpperLetters, CHOOSE i \in 1..Len(LowerLetters) : Ch(LowerLetters, i) = c)]

IsLower(c) == c \in LowerSet
IsUpper(c) == c \in UpperSet
IsDigit(c) == c \in Digits
\* [a-z0-9]
IsLowerAlnum(c) == IsLower(c) \/ IsDigit(c)
\* \w
IsWord(c) == IsLower(c) \/ IsUpper(c) \/ IsDigit(c) \/ c = "_"

LowerCh(c) == IF IsUpper(c) THEN LowerOf[c] ELSE c
UpperCh(c) == IF IsLower(c) THEN UpperOf[c] ELSE c

\* s[i:] of Python, for a 1-based i
From(s, i) == SubSeq(s, i, Len(s))

\* the two halves of a string of two or more characters
FirstHalf(s) == SubSeq(s, 1, Len(s) \div 2)
SecondHalf(s) == SubSeq(s, Len(s) \div 2 + 1, Len(s))

\* str.lower(): character by character (the string is halved to keep the
\* recursion shallow)
RECURSIVE lower(_)
lower(s) ==
    IF Len(s) <= 1 THEN LowerCh(s)
    ELSE With(FirstHalf(s), LAMBDA a : lower(a)) \o With(SecondHalf(s), LAMBDA b : lower(b))

RECURSIVE upper(_)
upper(s) ==
    IF Len(s) <= 1 THEN UpperCh(s)
    ELSE With(FirstHalf(s), LAMBDA a : upper(a)) \o With(SecondHalf(s), LAMBDA b : upper(b))

startswith(s, p) == Len(s) >= Len(p) /\ SubSeq(s, 1, Len(p)) = p
\* s has p at position i
HasAt(s, i, p) == i >= 1 /\ i + Len(p) - 1 <= Len(s) /\ SubSeq(s, i, i + Len(p) - 1) = p

SetMin(S) == CHOOSE x \in S : \A y \in S : x <= y
SetMax(S) == CHOOSE x \in S : \A y \in S : x >= y

\* The last index of the longest run of characters outside stop that starts
\* at i (i - 1 when the run is empty): a greedy [^...]* of a regular expression.
RunEnd(s, i, stop) ==
    With({j \in i..Len(s) : Ch(s, j) \in stop}, LAMBDA J :
         IF J # {} THEN SetMin(J) - 1 ELSE IF i > Len(s) THEN i - 1 ELSE Len(s))

\* The last index of the longest run of characters of cls that starts at i.
ClassEnd(s, i, cls) ==
    With({j \in i..Len(s) : Ch(s, j) \notin cls}, LAMBDA J :
         IF J # {} THEN SetMin(J) - 1 ELSE IF i > Len(s) THEN i - 1 ELSE Len(s))

\* The first index of the longest run of characters of cls that ends at i.
ClassStart(s, i, cls) ==
    With({j \in 1..i : Ch(s, j) \notin cls}, LAMBDA J :
         IF J # {} THEN SetMax(J) + 1 ELSE 1)

lstrip(s, chars) == From(s, ClassEnd(s, 1, chars) + 1)
rstrip(s, chars) == SubSeq(s, 1, ClassStart(s, Len(s), chars) - 1)
strip(s, chars) == With(rstrip(s, chars), LAMBDA r : lstrip(r, chars))

\* The least index j >= i at which Test(s, j) holds, or 0.
FirstIndex(s, i, Test(_, _)) ==
    With({j \in i..Len(s) : Test(s, j)}, LAMBDA J : IF J = {} THEN 0 ELSE SetMin(J))

RECURSIVE join(_, _)
join(sep, parts) ==
    IF parts = <<>> THEN ""
    ELSE IF Len(parts) = 1 THEN parts[1]
    ELSE With(FirstHalf(parts), LAMBDA a : join(sep, a)) \o sep
         \o With(SecondHalf(parts), LAMBDA b : join(sep, b))

\* The concatenation of F(x) for the elements x of a sequence, in order: a
\* loop that appends to a list (the sequence is halved to keep the recursion
\* shallow).
RECURSIVE FlatMap(_, _)
FlatMap(F(_), q) ==
    IF q = <<>> THEN <<>>
    ELSE IF Len(q) = 1 THEN With(q[1], F)
    ELSE With(FirstHalf(q), LAMBDA a : FlatMap(F, a))
         \o With(SecondHalf(q), LAMBDA b : FlatMap(F, b))

\* The concatenation of Piece(s, i) for the indices i of lo..hi, in order: a
\* scan of the string (the range is halved to keep the recursion shallow).
RECURSIVE Collect(_, _, _, _)
Collect(Piece(_, _), s, lo, hi) ==
    IF lo > hi THEN <<>>
    ELSE IF lo = hi THEN Piece(s, lo)
    ELSE With((lo + hi) \div 2, LAMBDA mid :
              Collect(Piece, s, lo, mid) \o Collect(Piece, s, mid + 1, hi))

\* a line starts at the first character and after each \n, \r or \r\n
IsLineStart(s, i) ==
    \/ i = 1
    \/ Ch(s, i - 1) = "\n"
    \/ Ch(s, i - 1) = "\r" /\ Ch(s, i) # "\n"

\* the line that starts at i, without its line break
LineAt(s, i) ==
    IF IsLineStart(s, i) THEN <<SubSeq(s, i, RunEnd(s, i, LineBreaks))>> ELSE <<>>

\* str.splitlines(): lines end at \n, \r or \r\n; no empty last line
splitlines(s) == Collect(LineAt, s, 1, Len(s))

\* str.split(" > ")
IsPathSepAt(s, j) == HasAt(s, j, " > ")

RECURSIVE SplitPathFrom(_, _)
SplitPathFrom(s, start) ==
    With(FirstIndex(s, start, IsPathSepAt), LAMBDA i :
         IF i = 0 THEN <<SubSeq(s, start, Len(s))>>
         ELSE With(i + 3, LAMBDA nxt : <<SubSeq(s, start, i - 1)>> \o SplitPathFrom(s, nxt)))

split_path(s) == SplitPathFrom(s, 1)

\* the maximal run of non-whitespace that starts at i
WordAt(s, i) ==
    IF Ch(s, i) \notin Whitespace /\ (i = 1 \/ Ch(s, i - 1) \in Whitespace)
    THEN <<SubSeq(s, i, RunEnd(s, i, Whitespace))>> ELSE <<>>

\* str.split(): the maximal runs of non-whitespace
split_words(s) == Collect(WordAt, s, 1, Len(s))

Last(q) == q[Len(q)]

\* q[:n] of Python
Take(q, n) == SubSeq(q, 1, IF n < Len(q) THEN n ELSE Len(q))

-----------------------------------------------------------------------------
(* cleanup_inline_markdown: eight substitution passes and a final strip    *)

\* re.sub(r"\[([^\]]+)\]\([^)]+\)", r"\1", text): the index of the last
\* character of the link text, and of the link, that starts at i (or 0)
LinkTextEnd(s, i) == RunEnd(s, i + 1, {"]"})
LinkEnd(s, i) ==
    IF Ch(s, i) # "[" THEN 0
    ELSE With(LinkTextEnd(s, i), LAMBDA j :
         IF ~(j >= i + 1 /\ HasAt(s, j + 1, "](")) THEN 0
         ELSE With(RunEnd(s, j + 3, {")"}), LAMBDA k :
              IF k >= j + 3 /\ HasAt(s, k + 1, ")") THEN k + 1 ELSE 0))

IsLinkAt(s, j) == LinkEnd(s, j) > 0

RECURSIVE SubLinks(_, _)
SubLinks(s, i) ==
    With(FirstIndex(s, i, IsLinkAt), LAMBDA j :
         IF j = 0 THEN From(s, i)
         ELSE With(LinkEnd(s, j) + 1, LAMBDA nxt :
                   SubSeq(s, i, j - 1) \o SubSeq(s, j + 1, LinkTextEnd(s, j))
                   \o SubLinks(s, nxt)))

\* A match of  d ([^c]+) d  at i, for a delimiter string d whose character is
\* c: the index of the match's last character, or 0.
DelimEnd(s, i, d, c) ==
    IF ~HasAt(s, i, d) THEN 0
    ELSE With(RunEnd(s, i + Len(d), {c}), LAMBDA j :
         IF j >= i + Len(d) /\ HasAt(s, j + 1, d) THEN j + Len(d) ELSE 0)

\* re.sub(d ([^c]+) d, r"\1", text): the delimiters go, the text between stays
RECURSIVE SubDelim(_, _, _, _)
SubDelim(s, i, d, c) ==
    With(FirstIndex(s, i, LAMBDA t, k : DelimEnd(t, k, d, c) > 0), LAMBDA j :
         IF j = 0 THEN From(s, i)
         ELSE With(DelimEnd(s, j, d, c), LAMBDA e :
              With(e + 1, LAMBDA nxt :
                   SubSeq(s, i, j - 1) \o SubSeq(s, j + Len(d), e - Len(d))
                   \o SubDelim(s, nxt, d, c))))

\* re.sub(r"<[^>]+>", " ", text)
TagEnd(s, i) ==
    IF Ch(s, i) # "<" THEN 0
    ELSE With(RunEnd(s, i + 1, {">"}), LAMBDA j :
         IF j >= i + 1 /\ HasAt(s, j + 1, ">") THEN j + 1 ELSE 0)

IsTagAt(s, j) == TagEnd(s, j) > 0

RECURSIVE SubTags(_, _)
SubTags(s, i) ==
    With(FirstIndex(s, i, IsTagAt), LAMBDA j :
         IF j = 0 THEN From(s, i)
         ELSE With(TagEnd(s, j) + 1, LAMBDA nxt :
                   SubSeq(s, i, j - 1) \o " " \o SubTags(s, nxt)))

IsNbspAt(s, j) == HasAt(s, j, "&nbsp;")

\* text.replace("&nbsp;", " ")
RECURSIVE ReplaceNbsp(_, _)
ReplaceNbsp(s, i) ==
    With(FirstIndex(s, i, IsNbspAt), LAMBDA j :
         IF j = 0 THEN From(s, i)
         ELSE With(j + 6, LAMBDA nxt : SubSeq(s, i, j - 1) \o " " \o ReplaceNbsp(s, nxt)))

IsSpaceAt(s, j) == Ch(s, j) \in Whitespace

\* re.sub(r"\s+", " ", text): every maximal run of whitespace becomes one
\* space, the runs at the two ends included
CollapseSpace(s) ==
    With(split_words(s), LAMBDA words :
         (IF IsSpaceAt(s, 1) THEN " " ELSE "")
         \o join(" ", words)
         \o (IF words # <<>> /\ IsSpaceAt(s, Len(s)) THEN " " ELSE ""))

Asterisk == "*"
Bold == "**"
\* the grave accent: the delimiter of inline code
Backtick == Head("`'")

cleanup_inline_markdown(text) ==
    With(SubLinks(text, 1), LAMBDA t1 :
    With(SubDelim(t1, 1, Backtick, Backtick), LAMBDA t2 :
    With(SubDelim(t2, 1, Bold, Asterisk), LAMBDA t3 :
    With(SubDelim(t3, 1, Asterisk, Asterisk), LAMBDA t4 :
    With(SubDelim(t4, 1, "__", "_"), LAMBDA t5 :
    With(SubDelim(t5, 1, "_", "_"), LAMBDA t6 :
    With(SubTags(t6, 1), LAMBDA t7 :
    With(ReplaceNbsp(t7, 1), LAMBDA t8 :
    With(CollapseSpace(t8), LAMBDA t9 : strip(t9, Whitespace))))))))))

\* sentence(text)
sentence(text) ==
    With(cleanup_inline_markdown(text), LAMBDA cleaned :
    With(strip(cleaned, {" ", "-"}), LAMBDA normalized :
         IF normalized = "" THEN ""
         ELSE IF Ch(normalized, Len(normalized)) \in {".", "!", "?"} THEN normalized
         ELSE normalized \o "."))

-----------------------------------------------------------------------------
(* Optional values: None is the empty tuple, Some(x) the one-element tuple  *)

None == <<>>
Some(x) == <<x>>

-----------------------------------------------------------------------------
(* The line patterns HEADING_RE, BULLET_RE and NUMBERED_RE                  *)

\* the number of leading # of a line
HashCount(line) == ClassEnd(line, 1, {"#"})

\* HEADING_RE.match(raw_line): ^(#{1,6})\s+(.+?)\s*$
HeadingMatch(line) ==
    With(HashCount(line), LAMBDA n :
         /\ n >= 1 /\ n <= 6
         /\ Ch(line, n + 1) \in Whitespace
         /\ Len(line) >= n + 2)

\* len(heading_match.group(1))
HeadingLevel(line) == HashCount(line)

\* heading_match.group(2): the lazy group ends at the last character that is
\* not whitespace, and starts after the greedy whitespace run
HeadingGroup2(line) ==
    With(From(line, HashCount(line) + 1), LAMBDA rest :
    With(strip(rest, Whitespace), LAMBDA g :
         IF g = "" THEN Ch(rest, Len(rest)) ELSE g))

\* the index of the first character of a line that is not whitespace
FirstNonSpace(line) == ClassEnd(line, 1, Whitespace) + 1

\* the group (.*\S) of a list pattern, when it starts at index i: None when
\* nothing but whitespace is left
ItemGroup(line, i) ==
    With(From(line, i), LAMBDA rest :
    With(strip(rest, Whitespace), LAMBDA g : IF g = "" THEN <<>> ELSE <<g>>))

\* BULLET_RE.match(line): ^\s*[-*]\s+(.*\S)\s*$ ; the group, or None
BulletMatch(line) ==
    With(FirstNonSpace(line), LAMBDA i :
         IF Ch(line, i) \in {"-", "*"} /\ Ch(line, i + 1) \in Whitespace
         THEN ItemGroup(line, i + 1) ELSE <<>>)

\* NUMBERED_RE.match(line): ^\s*\d+[.)]\s+(.*\S)\s*$ ; the group, or None
NumberedMatch(line) ==
    With(FirstNonSpace(line), LAMBDA i :
    With(ClassEnd(line, i, Digits), LAMBDA d :
         IF d >= i /\ Ch(line, d + 1) \in {".", ")"} /\ Ch(line, d + 2) \in Whitespace
         THEN ItemGroup(line, d + 2) ELSE <<>>))

\* BULLET_RE.match(line) or NUMBERED_RE.match(line)
ListItemMatch(line) ==
    With(BulletMatch(line), LAMBDA m : IF m # <<>> THEN m ELSE NumberedMatch(line))

-----------------------------------------------------------------------------
(* parse_sections                                                          *)

Section(source, body) == [source |-> source, body |-> body]
TaskSeed(source, text) == [source |-> source, text |-> text]

\* the locals of parse_sections before its loop
ParseStart ==
    [sections |-> <<>>, heading_stack |-> <<>>, current_source |-> <<>>,
     current_body |-> <<>>, saw_structured_headings |-> FALSE]

\* the section that is open is closed: it is kept when its body is not blank
CloseSection(st) ==
    IF st.current_source = <<>> THEN st.sections
    ELSE With(join("\n", st.current_body), LAMBDA body :
              IF strip(body, Whitespace) # ""
              THEN Append(st.sections, Section(st.current_source[1], body))
              ELSE st.sections)

\* heading_stack = heading_stack[:depth]; heading_stack.append(title or "Untitled")
PushHeading(heading_stack, level, title) ==
    Append(Take(heading_stack, IF level - 2 > 0 THEN level - 2 ELSE 0),
           IF title = "" THEN "Untitled" ELSE title)

\* cleanup_inline_markdown(heading_match.group(2).rstrip("#").strip())
HeadingTitle(raw_line) ==
    With(HeadingGroup2(raw_line), LAMBDA g2 :
    With(rstrip(g2, {"#"}), LAMBDA h :
    With(strip(h, Whitespace), LAMBDA t : cleanup_inline_markdown(t))))

\* the heading branch of the loop, for a heading of level 2 or more
OpenSection(st, stack) ==
    [sections |-> CloseSection(st),
     heading_stack |-> stack,
     current_source |-> <<join(" > ", stack)>>,
     current_body |-> <<>>,
     saw_structured_headings |-> TRUE]

\* one iteration of the loop over the lines
ParseLine(st, raw_line) ==
    IF HeadingMatch(raw_line)
    THEN With(HeadingLevel(raw_line), LAMBDA level :
              IF level >= 2
              THEN With(HeadingTitle(raw_line), LAMBDA title :
                   With(PushHeading(st.heading_stack, level, title), LAMBDA stack :
                        OpenSection(st, stack)))
              ELSE st)
    ELSE IF st.saw_structured_headings
         THEN [st EXCEPT !.current_body = Append(@, raw_line)]
         ELSE st

RECURSIVE ParseLines(_, _)
ParseLines(st, lines) ==
    IF lines = <<>> THEN st
    ELSE With(Head(lines), LAMBDA raw_line :
         With(ParseLine(st, raw_line), LAMBDA st2 :
         With(Tail(lines), LAMBDA rest : ParseLines(st2, rest))))

parse_sections(md) ==
    With(splitlines(md), LAMBDA lines :
    With(ParseLines(ParseStart, lines), LAMBDA st :
    With(CloseSection(st), LAMBDA found :
         IF found # <<>> THEN found
         ELSE With(cleanup_inline_markdown(md), LAMBDA fallback :
                   IF fallback # "" THEN <<Section("General", fallback)>> ELSE <<>>))))

-----------------------------------------------------------------------------
(* split_sentences and extract_seeds                                       *)

Fence == Backtick \o Backtick \o Backtick

IsFenceAt(s, j) == HasAt(s, j, Fence)
\* a fence that is closed by a later fence
IsFencedAt(s, j) == HasAt(s, j, Fence) /\ FirstIndex(s, j + 3, IsFenceAt) > 0

\* re.sub(fence .*? fence, " ", text, flags=re.S), a fence being three grave
\* accents
RECURSIVE ScrubFences(_, _)
ScrubFences(s, i) ==
    With(FirstIndex(s, i, IsFencedAt), LAMBDA j :
         IF j = 0 THEN From(s, i)
         ELSE With(FirstIndex(s, j + 3, IsFenceAt) + 3, LAMBDA nxt :
                   SubSeq(s, i, j - 1) \o " " \o ScrubFences(s, nxt)))

\* a line that split_sentences leaves out
IsSkippedLine(line) ==
    \/ line = ""
    \/ Ch(line, 1) \in {"#", ">", "|"}
    \/ ListItemMatch(line) # <<>>

\* one iteration of the loop of split_sentences
ProseLine(raw_line) ==
    With(strip(raw_line, Whitespace), LAMBDA line :
         IF IsSkippedLine(line) THEN <<>> ELSE <<cleanup_inline_markdown(line)>>)

\* the loop of split_sentences: the prose lines, each cleaned
ProseLines(raw_lines) == FlatMap(ProseLine, raw_lines)

IsStopSpaceAt(s, j) ==
    Ch(s, j) \in Whitespace /\ j > 1 /\ Ch(s, j - 1) \in {".", "!", "?"}

\* re.split(r"(?<=[.!?])\s+", corpus)
RECURSIVE SplitAfterStops(_, _)
SplitAfterStops(s, start) ==
    With(FirstIndex(s, start, IsStopSpaceAt), LAMBDA i :
         IF i = 0 THEN <<SubSeq(s, start, Len(s))>>
         ELSE With(ClassEnd(s, i, Whitespace) + 1, LAMBDA nxt :
                   <<SubSeq(s, start, i - 1)>> \o SplitAfterStops(s, nxt)))

StripChunk(chunk) ==
    With(strip(chunk, Whitespace), LAMBDA c : IF c = "" THEN <<>> ELSE <<c>>)

\* [chunk.strip() for chunk in ... if chunk.strip()]
StripChunks(chunks) == FlatMap(StripChunk, chunks)

MinSentenceLen == 20

LongChunk(chunk) == IF Len(chunk) >= MinSentenceLen THEN <<chunk>> ELSE <<>>

\* [chunk for chunk in chunks if len(chunk) >= 20]
LongChunks(chunks) == FlatMap(LongChunk, chunks)

split_sentences(text) ==
    With(ScrubFences(text, 1), LAMBDA scrubbed :
    With(splitlines(scrubbed), LAMBDA raw_lines :
    With(ProseLines(raw_lines), LAMBDA lines :
    With(join(" ", lines), LAMBDA corpus :
         IF corpus = "" THEN <<>>
         ELSE With(SplitAfterStops(corpus, 1), LAMBDA parts :
              With(StripChunks(parts), LAMBDA chunks : LongChunks(chunks)))))))

\* re.sub(r"^\[[ xX]\]\s*", "", candidate)
StripCheckbox(candidate) ==
    IF /\ Ch(candidate, 1) = "["
       /\ Ch(candidate, 2) \in {" ", "x", "X"}
       /\ Ch(candidate, 3) = "]"
    THEN From(candidate, ClassEnd(candidate, 4, Whitespace) + 1)
    ELSE candidate

\* the candidate of one body line: none when the line is no list item or the
\* item is empty once cleaned
LineCandidate(line) ==
    With(ListItemMatch(line), LAMBDA m :
         IF m = <<>> THEN <<>>
         ELSE With(cleanup_inline_markdown(m[1]), LAMBDA cleaned :
              With(StripCheckbox(cleaned), LAMBDA candidate :
                   IF candidate # "" THEN <<candidate>> ELSE <<>>)))

\* the first loop of extract_seeds: the list items of the body
ListCandidates(lines) == FlatMap(LineCandidate, lines)

MaxSentenceSeeds == 4
MaxSeedsPerSection == 12

\* the strings extract_seeds chooses, before its last loop
SeedCandidates(section) ==
    With(splitlines(section.body), LAMBDA lines :
    With(ListCandidates(lines), LAMBDA items :
         IF items # <<>> THEN items
         ELSE With(split_sentences(section.body), LAMBDA sents :
                   IF sents # <<>> THEN Take(sents, MaxSentenceSeeds)
                   ELSE With(split_path(section.source), LAMBDA path : <<Last(path)>>))))

\* one iteration of the last loop of extract_seeds
CleanSeed(source, candidate) ==
    With(cleanup_inline_markdown(candidate), LAMBDA text :
         IF text # "" THEN <<TaskSeed(source, text)>> ELSE <<>>)

\* the last loop of extract_seeds
CleanSeeds(source, candidates) ==
    FlatMap(LAMBDA candidate : CleanSeed(source, candidate), candidates)

extract_seeds(section) ==
    With(SeedCandidates(section), LAMBDA candidates :
    With(Take(candidates, MaxSeedsPerSection), LAMBDA first :
         CleanSeeds(section.source, first)))

-----------------------------------------------------------------------------
(* deduplicate                                                             *)

\* re.sub(r"[^a-z0-9]+", "", seed.text.lower())
RECURSIVE KeepLowerAlnum(_)
KeepLowerAlnum(s) ==
    IF Len(s) <= 1 THEN (IF IsLowerAlnum(s) THEN s ELSE "")
    ELSE With(FirstHalf(s), LAMBDA a : KeepLowerAlnum(a))
         \o With(SecondHalf(s), LAMBDA b : KeepLowerAlnum(b))

\* the key without the lower-casing, the fault that C4_FirstPerKey detects
DedupKeyCaseSensitive(text) == KeepLowerAlnum(text)

DedupKey(text) == With(lower(text), LAMBDA lowered : KeepLowerAlnum(lowered))

RECURSIVE DedupFrom(_, _)
DedupFrom(rest, seen) ==
    IF rest = <<>> THEN <<>>
    ELSE With(DedupKey(Head(rest).text), LAMBDA key :
         With(Tail(rest), LAMBDA more :
              IF key = "" \/ key \in seen
              THEN DedupFrom(more, seen)
              ELSE With(seen \cup {key}, LAMBDA seen2 :
                        <<Head(rest)>> \o DedupFrom(more, seen2))))

deduplicate(sds) == DedupFrom(sds, {})

-----------------------------------------------------------------------------
(* infer_actor and article                                                 *)

\* \bw\b matches at j
WholeWordAt(s, j, w) ==
    HasAt(s, j, w) /\ ~IsWord(Ch(s, j - 1)) /\ ~IsWord(Ch(s, j + Len(w)))

\* re.search(rf"\b{actor}\b", lowered)
ContainsWord(s, w) == \E j \in 1..Len(s) : WholeWordAt(s, j, w)

Actors == <<"administrator", "admin", "customer", "operator", "manager",
            "analyst", "developer", "user">>

\* infer_actor without the \b of its pattern: an actor inside a longer word
\* counts, the fault that C13_EarliestActor detects
InferActorInsideWords(text) ==
    With(lower(text), LAMBDA lowered :
    With({k \in 1..Len(Actors) : \E j \in 1..Len(lowered) : HasAt(lowered, j, Actors[k])},
         LAMBDA found :
         IF found = {} THEN "user" ELSE Actors[SetMin(found)]))

infer_actor(text) ==
    With(lower(text), LAMBDA lowered :
    With({k \in 1..Len(Actors) : ContainsWord(lowered, Actors[k])}, LAMBDA found :
         IF found = {} THEN "user" ELSE Actors[SetMin(found)]))

article(actor) ==
    IF startswith(actor, "a ") \/ startswith(actor, "an ") \/ startswith(actor, "the ")
    THEN actor
    ELSE IF lower(actor) \in {"user", "unicorn", "university"} THEN "a " \o actor
    ELSE (IF lower(Ch(actor, 1)) \in {"a", "e", "i", "o", "u", ""} THEN "an" ELSE "a")
         \o " " \o actor

-----------------------------------------------------------------------------
(* to_capability, build_story, build_title                                 *)

\* A phrase is a sequence of words; in a pattern its words are separated by
\* \s+ and matched without regard to case. The index of the last character of
\* the phrase at i, or 0.
RECURSIVE PhraseEnd(_, _, _)
PhraseEnd(s, i, words) ==
    With(i + Len(words[1]) - 1, LAMBDA e :
         IF e > Len(s) THEN 0
         ELSE IF With(SubSeq(s, i, e), LAMBDA w : lower(w)) # words[1] THEN 0
         ELSE IF Len(words) = 1 THEN e
         ELSE With(ClassEnd(s, e + 1, Whitespace), LAMBDA w :
                   IF w < e + 1 THEN 0
                   ELSE With(Tail(words), LAMBDA rest : PhraseEnd(s, w + 1, rest))))

\* phrase \s+ at i: the index of the last whitespace character, or 0
PhraseSpaceEnd(s, i, words) ==
    With(PhraseEnd(s, i, words), LAMBDA e :
         IF e = 0 THEN 0
         ELSE With(ClassEnd(s, e + 1, Whitespace), LAMBDA w :
                   IF w >= e + 1 THEN w ELSE 0))

\* (must|should|shall|needs\s+to)
Modals == << <<"must">>, <<"should">>, <<"shall">>, <<"needs", "to">> >>
\* (the\s+system|system|platform|application|app)
Subjects == << <<"the", "system">>, <<"system">>, <<"platform">>,
               <<"application">>, <<"app">> >>

\* (alternatives)\s+ at i: the end of the first alternative that matches, or 0
AltSpaceEnd(s, i, alts) ==
    With({k \in 1..Len(alts) : PhraseSpaceEnd(s, i, alts[k]) > 0}, LAMBDA ok :
         IF ok = {} THEN 0 ELSE PhraseSpaceEnd(s, i, alts[SetMin(ok)]))

\* re.sub(r"^(must|should|shall|needs\s+to)\s+", "", text, flags=re.I)
StripModal(text) ==
    With(AltSpaceEnd(text, 1, Modals), LAMBDA e :
         IF e > 0 THEN From(text, e + 1) ELSE text)

\* (subject)\s+(modal)\s+ at the start, for one subject: the index of the
\* last whitespace character, or 0
SubjectModalEnd(text, subject) ==
    With(PhraseSpaceEnd(text, 1, subject), LAMBDA e :
         IF e = 0 THEN 0 ELSE AltSpaceEnd(text, e + 1, Modals))

\* re.sub(r"^(the\s+system|...|app)\s+(must|...|needs\s+to)\s+", "", text, flags=re.I)
StripSubjectModal(text) ==
    With({k \in 1..Len(Subjects) : SubjectModalEnd(text, Subjects[k]) > 0}, LAMBDA ok :
         IF ok = {} THEN text
         ELSE From(text, SubjectModalEnd(text, Subjects[SetMin(ok)]) + 1))

\* to_capability without the lower-casing of the first character, the fault
\* that C7_Scenario1Amended detects
ToCapabilityKeepCase(text) ==
    With(StripSubjectModal(text), LAMBDA v0 :
    With(StripModal(v0), LAMBDA v1 :
    With(strip(v1, Whitespace), LAMBDA v2 :
    With(rstrip(v2, {"."}), LAMBDA v3 :
    With(IF v3 = "" THEN "deliver the required behavior" ELSE v3, LAMBDA value :
         IF startswith(lower(value), "to ") THEN value ELSE "to " \o value)))))

to_capability(text) ==
    With(StripSubjectModal(text), LAMBDA v0 :
    With(StripModal(v0), LAMBDA v1 :
    With(strip(v1, Whitespace), LAMBDA v2 :
    With(rstrip(v2, {"."}), LAMBDA v3 :
    With(IF v3 = "" THEN "deliver the required behavior" ELSE v3, LAMBDA value :
         IF startswith(lower(value), "to ") THEN value
         ELSE IF Len(value) > 1 THEN "to " \o lower(Ch(value, 1)) \o From(value, 2)
         ELSE "to " \o lower(value))))))

\* as\s+a at i: the index of the "a", or 0
AsAEnd(s, i) ==
    IF ~(i + 1 <= Len(s) /\ LowerCh(Ch(s, i)) = "a" /\ LowerCh(Ch(s, i + 1)) = "s") THEN 0
    ELSE With(ClassEnd(s, i + 2, Whitespace), LAMBDA w :
              IF w >= i + 2 /\ LowerCh(Ch(s, w + 1)) = "a" THEN w + 1 ELSE 0)

\* so\s+that at k: the index of the last character of "that", or 0
SoThatEnd(s, k) == PhraseEnd(s, k, <<"so", "that">>)

\* . of a pattern without re.S
NoNewline(s, i, j) == \A k \in i..j : Ch(s, k) # "\n"

\* .+?so\s+that.+?(?:[.?!]|$) from p, the first character of the first .+? :
\* the index of the last character of the second .+? , or 0
StoryTailEnd(s, p) ==
    With({k \in (p + 1)..Len(s) :
             /\ Ch(s, k) \in {"s", "S"}
             /\ NoNewline(s, p, k - 1)
             /\ With(SoThatEnd(s, k), LAMBDA t : t > 0 /\ t < Len(s))}, LAMBDA K :
         IF K = {} THEN 0
         ELSE With(SoThatEnd(s, SetMin(K)), LAMBDA T :
              With({e \in (T + 1)..Len(s) :
                       /\ NoNewline(s, T + 1, e)
                       /\ (e = Len(s) \/ Ch(s, e + 1) \in {".", "?", "!"})}, LAMBDA E :
                   IF E = {} THEN 0 ELSE SetMin(E))))

\* (as\s+an?.+?so\s+that.+?)(?:[.?!]|$) at i: the index of the last character
\* of the group, or 0; the optional n is tried first
StoryEnd(s, i) ==
    With(AsAEnd(s, i), LAMBDA a :
         IF a = 0 THEN 0
         ELSE With(IF LowerCh(Ch(s, a + 1)) = "n" THEN StoryTailEnd(s, a + 2) ELSE 0,
                   LAMBDA withN : IF withN > 0 THEN withN ELSE StoryTailEnd(s, a + 1)))

IsStoryAt(s, i) == StoryEnd(s, i) > 0

\* re.search(..., seed.text, flags=re.I): group(1), or None
ExistingStory(text) ==
    With(FirstIndex(text, 1, IsStoryAt), LAMBDA i :
         IF i = 0 THEN <<>> ELSE <<SubSeq(text, i, StoryEnd(text, i))>>)

\* f"As {actor}, I want {capability}, so that the PRD requirement is
\* delivered successfully"
StoryTemplate(actor, capability) ==
    "As " \o actor \o ", I want " \o capability
    \o ", so that the PRD requirement is delivered successfully"

build_story(seed) ==
    With(ExistingStory(seed.text), LAMBDA existing_story :
         IF existing_story # <<>> THEN sentence(existing_story[1])
         ELSE With(infer_actor(seed.text), LAMBDA who :
              With(article(who), LAMBDA actor :
              With(to_capability(seed.text), LAMBDA capability :
              With(StoryTemplate(actor, capability), LAMBDA story : sentence(story))))))

MaxTitleWords == 10

\* " ".join(words[:10]) if words else candidate
ShortTitle(candidate) ==
    With(split_words(candidate), LAMBDA words :
         IF words # <<>>
         THEN With(Take(words, MaxTitleWords), LAMBDA first : join(" ", first))
         ELSE candidate)

\* build_title without its last fallback  if not short: short = "Untitled Task",
\* the fault that C11_SynthesisTotal detects
BuildTitleNoDefault(seed_text, source) ==
    With(StripModal(seed_text), LAMBDA c0 :
    With(cleanup_inline_markdown(c0), LAMBDA c1 :
    With(strip(c1, {" ", ".", ":", "-"}), LAMBDA c2 :
    With(IF c2 = "" THEN With(split_path(source), LAMBDA path : Last(path)) ELSE c2,
         LAMBDA candidate :
    With(ShortTitle(candidate), LAMBDA short :
         UpperCh(Ch(short, 1)) \o From(short, 2))))))

build_title(seed_text, source) ==
    With(StripModal(seed_text), LAMBDA c0 :
    With(cleanup_inline_markdown(c0), LAMBDA c1 :
    With(strip(c1, {" ", ".", ":", "-"}), LAMBDA c2 :
    With(IF c2 = "" THEN With(split_path(source), LAMBDA path : Last(path)) ELSE c2,
         LAMBDA candidate :
    With(ShortTitle(candidate), LAMBDA s1 :
    With(IF s1 = "" THEN "Untitled Task" ELSE s1, LAMBDA short :
         UpperCh(Ch(short, 1)) \o From(short, 2)))))))

\* sentence() of a phrase built around the label
Phrase(before, label, after) ==
    With(before \o label \o after, LAMBDA text : sentence(text))

build_acceptance_criteria(seed, title) ==
    With(lower(title), LAMBDA label :
         << sentence(seed.text),
            Phrase("The ", label,
                   " workflow succeeds with valid input and expected prerequisites"),
            Phrase("The ", label,
                   " workflow handles validation errors and dependency failures with actionable feedback") >>)

build_test_cases(title) ==
    With(lower(title), LAMBDA label :
         << Phrase("Given valid prerequisites for ", label,
                   ", when the workflow runs, then it completes successfully with expected output"),
            Phrase("Given invalid or missing input for ", label,
                   ", when the workflow runs, then validation blocks completion and explains how to fix it"),
            Phrase("Given a downstream failure during ", label,
                   ", when the workflow runs, then the failure is reported and data remains consistent") >>)

-----------------------------------------------------------------------------
(* slugify and build_tasks                                                 *)

LowerAlnumSet == LowerSet \cup Digits
IsSlugCharAt(s, j) == Ch(s, j) \in LowerAlnumSet

\* the maximal run of [a-z0-9] that starts at i
SlugRunAt(s, i) ==
    IF IsSlugCharAt(s, i) /\ ~IsSlugCharAt(s, i - 1)
    THEN <<SubSeq(s, i, ClassEnd(s, i, LowerAlnumSet))>> ELSE <<>>

\* re.sub(r"[^a-z0-9]+", "-", value): every maximal run of other characters
\* becomes one hyphen, the runs at the two ends included
DashRuns(s) ==
    With(Collect(SlugRunAt, s, 1, Len(s)), LAMBDA runs :
         (IF s # "" /\ ~IsSlugCharAt(s, 1) THEN "-" ELSE "")
         \o join("-", runs)
         \o (IF runs # <<>> /\ ~IsSlugCharAt(s, Len(s)) THEN "-" ELSE ""))

SlugMaxLen == 64

slugify(text) ==
    With(cleanup_inline_markdown(text), LAMBDA cleaned :
    With(lower(cleaned), LAMBDA lowered :
    With(DashRuns(lowered), LAMBDA dashed :
    With(strip(dashed, {"-"}), LAMBDA v1 :
    With(IF Len(v1) > SlugMaxLen
         THEN With(SubSeq(v1, 1, SlugMaxLen), LAMBDA cut : rstrip(cut, {"-"}))
         ELSE v1, LAMBDA value :
         IF value = "" THEN "task" ELSE value)))))

\* re.sub(r"[^A-Za-z0-9_-]+", "", task_prefix)
RECURSIVE KeepPrefixChars(_)
KeepPrefixChars(s) ==
    IF Len(s) <= 1 THEN (IF IsWord(s) \/ s = "-" THEN s ELSE "")
    ELSE With(FirstHalf(s), LAMBDA a : KeepPrefixChars(a))
         \o With(SecondHalf(s), LAMBDA b : KeepPrefixChars(b))

SafePrefix(task_prefix) ==
    With(KeepPrefixChars(task_prefix), LAMBDA kept :
    With(upper(kept), LAMBDA p : IF p = "" THEN "TASK" ELSE p))

\* str(n) for n >= 0
RECURSIVE Decimal(_)
Decimal(n) ==
    IF n < 10 THEN Ch(DigitChars, n + 1)
    ELSE With(n \div 10, LAMBDA q : Decimal(q)) \o Ch(DigitChars, (n % 10) + 1)

IdWidth == 3

\* str(index): the sequence number without its zero padding, the fault
\* that C1_IdsAndFilenames detects
FormatIndexNoPad(index) == Decimal(index)

\* f"{index:03d}"
FormatIndex(index) ==
    With(Decimal(index), LAMBDA d : SubSeq("000", 1, IdWidth - Len(d)) \o d)

\* the fields of a task that are built from its title
TitledTask(seed, task_id, title, out_dir, initial_state) ==
    [task_id |-> task_id,
     title |-> title,
     state |-> initial_state,
     source |-> seed.source,
     story |-> build_story(seed),
     acceptance_criteria |-> build_acceptance_criteria(seed, title),
     test_cases |-> build_test_cases(title),
     path |-> out_dir \o "/" \o task_id \o "-" \o slugify(title) \o ".md"]

\* the task build_tasks makes of the seed at position index
BuildTask(seed, index, out_dir, task_prefix, initial_state) ==
    With(SafePrefix(task_prefix) \o "-" \o FormatIndex(index), LAMBDA task_id :
    With(build_title(seed.text, seed.source), LAMBDA title :
         TitledTask(seed, task_id, title, out_dir, initial_state)))

-----------------------------------------------------------------------------
(* main: one action per step of the pipeline                               *)

\* how many times in a row cleanup_inline_markdown is applied to a text
CleanCalls == 2

VALID_STATES == {"open", "in_progress", "ready4review", "done"}

\* the pipeline's variables before main runs
Fresh ==
    /\ markdown = "" /\ sections = <<>> /\ sec_i = 0
    /\ all_seeds = <<>> /\ seeds = <<>> /\ tasks = <<>> /\ fs = <<>>
    /\ status = None /\ arg = <<>> /\ ret = <<>>

\* raise SystemExit(message): status 1; an argparse error: status 2
Abort(code) == pc' = "exit" /\ status' = Some(code)

\* parse_args(): --initial-state has choices=VALID_STATES
ParseArgs ==
    /\ pc = "start"
    /\ IF argv.initial_state \in VALID_STATES
       THEN pc' = "read" /\ status' = status
       ELSE Abort(2)
    /\ UNCHANGED <<argv, markdown, sections, sec_i, all_seeds, seeds, tasks, fs, arg, ret>>

\* markdown = read_markdown(prd_path)
ReadMarkdown ==
    /\ pc = "read"
    /\ IF argv.prd = None
       THEN Abort(1) /\ markdown' = markdown
       ELSE pc' = "check" /\ status' = status /\ markdown' = argv.prd[1]
    /\ UNCHANGED <<argv, sections, sec_i, all_seeds, seeds, tasks, fs, arg, ret>>

\* if not markdown.strip(): raise SystemExit
CheckEmpty ==
    /\ pc = "check"
    /\ IF strip(markdown, Whitespace) = ""
       THEN Abort(1)
       ELSE pc' = "parse" /\ status' = status
    /\ UNCHANGED <<argv, markdown, sections, sec_i, all_seeds, seeds, tasks, fs, arg, ret>>

\* sections = parse_sections(markdown); if not sections: raise SystemExit
ParseSections ==
    /\ pc = "parse"
    /\ sections' = parse_sections(markdown)
    /\ IF sections' = <<>>
       THEN Abort(1) /\ sec_i' = sec_i
       ELSE pc' = "extract" /\ status' = status /\ sec_i' = 1
    /\ UNCHANGED <<argv, markdown, all_seeds, seeds, tasks, fs, arg, ret>>

\* for section in sections: all_seeds.extend(extract_seeds(section))
ExtractSeeds ==
    /\ pc = "extract"
    /\ sec_i <= Len(sections)
    /\ all_seeds' = all_seeds \o extract_seeds(sections[sec_i])
    /\ sec_i' = sec_i + 1
    /\ UNCHANGED <<pc, argv, markdown, sections, seeds, tasks, fs, status, arg, ret>>

\* main without its check that seeds are left, the fault that
\* C2_AllOrNothing detects
DeduplicateNoCheck ==
    /\ pc = "extract"
    /\ sec_i > Len(sections)
    /\ seeds' = deduplicate(all_seeds)
    /\ pc' = "build"
    /\ UNCHANGED <<argv, markdown, sections, sec_i, all_seeds, tasks, fs, status, arg, ret>>

\* seeds = deduplicate(all_seeds); if not seeds: raise SystemExit
Deduplicate ==
    /\ pc = "extract"
    /\ sec_i > Len(sections)
    /\ seeds' = deduplicate(all_seeds)
    /\ IF seeds' = <<>>
       THEN Abort(1)
       ELSE pc' = "build" /\ status' = status
    /\ UNCHANGED <<argv, markdown, sections, sec_i, all_seeds, tasks, fs, arg, ret>>

\* build_tasks: one iteration of  for index, seed in enumerate(seeds, start=1)
BuildNext ==
    /\ pc = "build"
    /\ Len(tasks) < Len(seeds)
    /\ tasks' = Append(tasks, BuildTask(seeds[Len(tasks) + 1], Len(tasks) + 1,
                                        argv.out_dir, argv.task_prefix,
                                        argv.initial_state))
    /\ UNCHANGED <<pc, argv, markdown, sections, sec_i, all_seeds, seeds, fs, status, arg, ret>>

\* build_tasks: return tasks
BuildReturn ==
    /\ pc = "build"
    /\ Len(tasks) = Len(seeds)
    /\ pc' = "write"
    /\ UNCHANGED <<argv, markdown, sections, sec_i, all_seeds, seeds, tasks, fs, status, arg, ret>>

\* write_tasks: one iteration of  for task in tasks: task.path.write_text(...)
WriteTask ==
    /\ pc = "write"
    /\ Len(fs) < Len(tasks)
    /\ fs' = Append(fs, [kind |-> "task", path |-> tasks[Len(fs) + 1].path])
    /\ UNCHANGED <<pc, argv, markdown, sections, sec_i, all_seeds, seeds, tasks, status, arg, ret>>

\* the component of a path that starts at i
PathPartAt(s, i) ==
    IF Ch(s, i) # "/" /\ (i = 1 \/ Ch(s, i - 1) = "/")
    THEN <<SubSeq(s, i, RunEnd(s, i, {"/"}))>> ELSE <<>>

\* the components of an absolute path
PathParts(path) == Collect(PathPartAt, path, 1, Len(path))

\* Path.parent of an absolute path
Parent(path) ==
    With(PathParts(path), LAMBDA parts :
    With(SubSeq(parts, 1, Len(parts) - 1), LAMBDA dir : "/" \o join("/", dir)))

\* os.path.relpath(path, start=start) of two absolute paths: one ".." for
\* every component of start under their common directory, then the
\* components of path under it
relpath(path, start) ==
    With(PathParts(path), LAMBDA p :
    With(PathParts(start), LAMBDA q :
    With(SetMax({k \in 0..Len(q) : k <= Len(p) /\ \A j \in 1..k : p[j] = q[j]}),
         LAMBDA common :
    With([j \in 1..(Len(q) - common) |-> ".."] \o SubSeq(p, common + 1, Len(p)),
         LAMBDA rel :
         IF rel = <<>> THEN "." ELSE join("/", rel)))))

\* rel.replace(os.sep, "/"), where os.sep is "/"
SlashSep(rel) ==
    With(PathParts(rel), LAMBDA parts : join("/", parts))

\* one row of the table of write_tasklist
TasklistRow(task, tasklist_path) ==
    With(Parent(tasklist_path), LAMBDA start :
    With(relpath(task.path, start), LAMBDA r :
    With(SlashSep(r), LAMBDA rel :
         [label |-> task.task_id \o " - " \o task.title,
          link |-> rel,
          state |-> task.state])))

\* the rows of the table of write_tasklist, one per task
TasklistRows(ts, tasklist_path) ==
    FlatMap(LAMBDA task : <<TasklistRow(task, tasklist_path)>>, ts)

\* main with write_tasklist called before write_tasks, the fault that
\* C14_IndexAfterTasks detects
WriteTasklistFirst ==
    /\ pc = "write"
    /\ fs = <<>>
    /\ fs' = Append(fs, [kind |-> "index", path |-> argv.tasklist,
                         rows |-> TasklistRows(tasks, argv.tasklist)])
    /\ pc' = "done"
    /\ status' = Some(0)
    /\ UNCHANGED <<argv, markdown, sections, sec_i, all_seeds, seeds, tasks, arg, ret>>

\* write_tasklist(tasks, tasklist_path); return 0
WriteTasklist ==
    /\ pc = "write"
    /\ Len(fs) = Len(tasks)
    /\ fs' = Append(fs, [kind |-> "index", path |-> argv.tasklist,
                         rows |-> TasklistRows(tasks, argv.tasklist)])
    /\ pc' = "done"
    /\ status' = Some(0)
    /\ UNCHANGED <<argv, markdown, sections, sec_i, all_seeds, seeds, tasks, arg, ret>>

\* a call of infer_actor on the text
InferActor ==
    /\ pc = "actor"
    /\ ret = <<>>
    /\ ret' = <<infer_actor(arg)>>
    /\ UNCHANGED <<pc, argv, markdown, sections, sec_i, all_seeds, seeds, tasks, fs, status, arg>>

\* a call of cleanup_inline_markdown: on the text, then on what the call
\* before returned (extract_seeds cleans a list item when it collects it and
\* again when it makes the seed of it)
Cleanup ==
    /\ pc = "clean"
    /\ Len(ret) < CleanCalls
    /\ ret' = Append(ret, cleanup_inline_markdown(IF ret = <<>> THEN arg ELSE Last(ret)))
    /\ UNCHANGED <<pc, argv, markdown, sections, sec_i, all_seeds, seeds, tasks, fs, status, arg>>

-----------------------------------------------------------------------------
(* Spec: main, run on every document of at most MaxDocLines lines drawn    *)
(* from DocLines, and on the scenario documents                            *)

MaxDocLines == 2

DocLines ==
    { "## Goals", "### Sub", "## ** * *", "# Title",
      "- Reset password", "- reset password.", "short.", "<br>" }

Scenario1 == "## Goals\n- Users must be able to reset their password.\n"
Scenario2 == "The system should log all errors."

LineSeqs(lines, n) == UNION {[1..k -> lines] : k \in 0..n}

MainDocs ==
    {join("\n", ls) : ls \in LineSeqs(DocLines, MaxDocLines)} \cup {Scenario1, Scenario2}

Args(prd, task_prefix, initial_state) ==
    [prd |-> prd, out_dir |-> "/out", tasklist |-> "/out/TASKLIST.md",
     task_prefix |-> task_prefix, initial_state |-> initial_state]

MainArgs ==
    {Args(Some(d), "TASK", "open") : d \in MainDocs}
    \cup {Args(None, "TASK", "open"),
          Args(Some(Scenario1), "TASK", "closed"),
          Args(Some(Scenario1), "my task", "done")}
    \cup {[Args(Some(d), "TASK", "open") EXCEPT !.tasklist = "/docs/plan/INDEX.md"] :
             d \in {Scenario1, "## Goals\n- Reset password\n- Log errors"}}

Init == pc = "start" /\ argv \in MainArgs /\ Fresh

Next ==
    \/ ParseArgs \/ ReadMarkdown \/ CheckEmpty \/ ParseSections
    \/ ExtractSeeds \/ Deduplicate \/ BuildNext \/ BuildReturn
    \/ WriteTask \/ WriteTasklist

Spec == Init /\ [][Next]_vars

\* the arguments of the runs that start inside the pipeline
NoArgs == Args(None, "TASK", "open")

-----------------------------------------------------------------------------
(* SpecClean: cleanup_inline_markdown applied to every text of at most     *)
(* MaxCleanLen characters of CleanChars, and then to its own result        *)

MaxCleanLen == 5

CleanChars == {"*", Backtick, "_", "a", " "}

RECURSIVE Texts(_, _)
Texts(chars, n) ==
    IF n = 0 THEN {""}
    ELSE With(Texts(chars, n - 1), LAMBDA shorter :
              shorter \cup {t \o c : t \in shorter, c \in chars})

CleanTexts == Texts(CleanChars, MaxCleanLen)

InitClean ==
    /\ pc = "clean" /\ argv = NoArgs /\ arg \in CleanTexts
    /\ markdown = "" /\ sections = <<>> /\ sec_i = 0
    /\ all_seeds = <<>> /\ seeds = <<>> /\ tasks = <<>> /\ fs = <<>>
    /\ status = None /\ ret = <<>>

NextClean == Cleanup

SpecClean == InitClean /\ [][NextClean]_vars

-----------------------------------------------------------------------------
(* SpecParse: parse_sections applied to every document of at most          *)
(* MaxParseLines lines drawn from ParseDocLines                            *)

MaxParseLines == 4

ParseDocLines == { "# T", "## A", "### B", "#### C", "#### D", "x", "<br>" }

ParseDocs == {join("\n", ls) : ls \in LineSeqs(ParseDocLines, MaxParseLines)}

InitParse ==
    /\ pc = "parse" /\ markdown \in ParseDocs /\ argv = Args(Some(markdown), "TASK", "open")
    /\ sections = <<>> /\ sec_i = 0
    /\ all_seeds = <<>> /\ seeds = <<>> /\ tasks = <<>> /\ fs = <<>>
    /\ status = None /\ arg = <<>> /\ ret = <<>>

NextParse == ParseSections

SpecParse == InitParse /\ [][NextParse]_vars

-----------------------------------------------------------------------------
(* SpecSeeds: extract_seeds applied to sections whose body is a list of at *)
(* most MaxItems plain items, with at most one other line put into it      *)

MaxItems == 14

\* the plain item at position k
PlainItem(k) == "- Item " \o Decimal(k)

OtherLines ==
    { "- ** * *", "- [ ]", "1. [x] **Numbered** item",
      "A sentence that is long enough to be taken. short." }

\* n plain items
PlainLines(n) == [k \in 1..n |-> PlainItem(k)]

\* line put before position p of the lines
InsertAt(lines, p, line) ==
    SubSeq(lines, 1, p - 1) \o <<line>> \o SubSeq(lines, p, Len(lines))

SeedBodies ==
    {join("\n", PlainLines(n)) : n \in 0..MaxItems}
    \cup UNION {{join("\n", InsertAt(PlainLines(n), p, o)) :
                    p \in {1, 2, n + 1} \cap 1..(n + 1), o \in OtherLines} :
                n \in 0..(MaxItems - 1)}

\* five sentences of 20 characters or more, and a short one before them
FiveSentences ==
    "Too short. The first sentence is long enough. The second sentence is long enough! "
    \o "The third sentence is long enough? The fourth sentence is long enough. "
    \o "The fifth sentence is long enough."

SeedSections ==
    {Section("Goals", b) : b \in SeedBodies \ {""}}
    \cup {Section("Goals > Sub", "short."), Section("* *", "short."),
          Section("Goals", FiveSentences)}

InitSeeds ==
    /\ pc = "extract" /\ argv = NoArgs /\ markdown = ""
    /\ sections \in {<<sec>> : sec \in SeedSections} /\ sec_i = 1
    /\ all_seeds = <<>> /\ seeds = <<>> /\ tasks = <<>> /\ fs = <<>>
    /\ status = None /\ arg = <<>> /\ ret = <<>>

NextSeeds == ExtractSeeds

SpecSeeds == InitSeeds /\ [][NextSeeds]_vars

-----------------------------------------------------------------------------
(* SpecDedup: deduplicate applied to every list of at most MaxDedupLen     *)
(* seeds drawn from DedupSeeds                                             *)

MaxDedupLen == 3

DedupSeeds ==
    {TaskSeed("Goals", t) :
        t \in {"Reset password", "reset password.", "RESET-PASSWORD!", "!!!",
               "Log errors", "Reset passwords"}}
    \cup {TaskSeed("General", "Reset password")}

InitDedup ==
    /\ pc = "extract" /\ argv = NoArgs /\ markdown = ""
    /\ sections = <<>> /\ sec_i = 1
    /\ all_seeds \in LineSeqs(DedupSeeds, MaxDedupLen)
    /\ seeds = <<>> /\ tasks = <<>> /\ fs = <<>>
    /\ status = None /\ arg = <<>> /\ ret = <<>>

NextDedup == Deduplicate

SpecDedup == InitDedup /\ [][NextDedup]_vars

-----------------------------------------------------------------------------
(* SpecBuild: build_tasks applied to lists of seeds, one of them of        *)
(* MaxSeeds seeds whose titles are all the same                            *)

MaxSeeds == 1001

\* seeds that differ in their eleventh word only: their titles are equal
SameTitleSeed(k) ==
    TaskSeed("Goals", "A b c d e f g h i j " \o Decimal(k))

SameTitleSeeds(n) == [k \in 1..n |-> SameTitleSeed(k)]

StorySeeds ==
    << TaskSeed("Goals", "Users must be able to reset their password."),
       TaskSeed("Goals", "As an admin I want audit logs so that changes are traceable"),
       TaskSeed("Ops", "Runs as a service so that restarts are automatic"),
       TaskSeed("Ops", "The system should log all errors!"),
       TaskSeed("Ops > Cache", "The app has a cache so that pages load fast") >>

BuildSeedLists ==
    {SameTitleSeeds(n) : n \in {1, 2, MaxSeeds}}
    \cup {SubSeq(StorySeeds, 1, n) : n \in 1..Len(StorySeeds)}

BuildArgs ==
    {Args(None, p, "open") : p \in {"TASK", "my task", "!!"}}

InitBuild ==
    /\ pc = "build" /\ argv \in BuildArgs /\ seeds \in BuildSeedLists
    /\ (Len(seeds) > 2 /\ seeds[1] = SameTitleSeed(1) => argv.task_prefix = "TASK")
    /\ markdown = "" /\ sections = <<>> /\ sec_i = 0
    /\ all_seeds = seeds /\ tasks = <<>> /\ fs = <<>>
    /\ status = None /\ arg = <<>> /\ ret = <<>>

NextBuild == BuildNext \/ BuildReturn

SpecBuild == InitBuild /\ [][NextBuild]_vars

-----------------------------------------------------------------------------
(* SpecSynth: build_tasks applied to the lists of at most MaxSynthSeeds     *)
(* consecutive seeds of SynthSeeds, the seeds that need a fallback among   *)
(* them, for every initial state                                           *)

MaxSynthSeeds == 2

SynthSeeds ==
    << TaskSeed("", "."),
       TaskSeed("Goals", "!!!"),
       TaskSeed("Goals", "."),
       TaskSeed("Ops > Cache", "."),
       TaskSeed("Goals", "Must ."),
       TaskSeed("Goals", "X"),
       TaskSeed("Goals", "Log all errors"),
       TaskSeed("Goals", "Admins and the administrator approve refunds"),
       TaskSeed("Goals", "The system shall export reports for the analyst"),
       TaskSeed("Goals", "one two three four five six seven eight nine ten eleven twelve"),
       TaskSeed("Goals", "Runs as a service so that restarts are automatic") >>

\* the n seeds of SynthSeeds from the one at i on, going round at its end
SynthSeedList(i, n) ==
    [k \in 1..n |-> SynthSeeds[((i + k - 2) % Len(SynthSeeds)) + 1]]

SynthSeedLists ==
    {SynthSeedList(i, n) : i \in 1..Len(SynthSeeds), n \in 1..MaxSynthSeeds}

SynthArgs ==
    {Args(None, "TASK", st) : st \in VALID_STATES}

InitSynth ==
    /\ pc = "build" /\ argv \in SynthArgs
    /\ seeds \in SynthSeedLists
    /\ markdown = "" /\ sections = <<>> /\ sec_i = 0
    /\ all_seeds = seeds /\ tasks = <<>> /\ fs = <<>>
    /\ status = None /\ arg = <<>> /\ ret = <<>>

NextSynth == BuildNext \/ BuildReturn

SpecSynth == InitSynth /\ [][NextSynth]_vars

-----------------------------------------------------------------------------
(* SpecActor: infer_actor applied to every text of at most MaxActorWords   *)
(* words of ActorWords, separated by one space                             *)

MaxActorWords == 2

ActorWords ==
    {"admin", "Administrator,", "admins", "admin_panel", "(user)", "Manager",
     "the", "developer's", "superuser"}

ActorTexts ==
    {join(" ", ws) : ws \in LineSeqs(ActorWords, MaxActorWords)}

InitActor ==
    /\ pc = "actor" /\ argv = NoArgs /\ markdown = ""
    /\ sections = <<>> /\ sec_i = 0
    /\ all_seeds = <<>> /\ seeds = <<>> /\ tasks = <<>> /\ fs = <<>>
    /\ status = None /\ arg \in ActorTexts /\ ret = <<>>

NextActor == InferActor

SpecActor == InitActor /\ [][NextActor]_vars

-----------------------------------------------------------------------------
(* The properties                                                          *)

\* the decimal number that a string of digits denotes
DigitValue(c) == CHOOSE d \in 0..9 : Ch(DigitChars, d + 1) = c

RECURSIVE NumberOf(_)
NumberOf(digits) ==
    IF digits = "" THEN 0
    ELSE With(SubSeq(digits, 1, Len(digits) - 1), LAMBDA front :
              10 * NumberOf(front) + DigitValue(Ch(digits, Len(digits))))

AllDigits(t) == \A i \in 1..Len(t) : IsDigit(Ch(t, i))

\* the k-th least element of a set of numbers
Nth(S, k) == CHOOSE i \in S : Cardinality({j \in S : j <= i}) = k

\* the prefix of the ids, for the prefixes of BuildArgs
C1_Prefix ==
    CASE argv.task_prefix = "TASK" -> "TASK"
      [] argv.task_prefix = "my task" -> "MYTASK"
      [] argv.task_prefix = "!!" -> "TASK"

\* the digits of the id of task k, when the id is the prefix, a hyphen and
\* digits; "" otherwise
C1_IdDigits(k) ==
    LET id == tasks[k].task_id
        head == C1_Prefix \o "-"
    IN IF startswith(id, head) /\ AllDigits(From(id, Len(head) + 1))
       THEN From(id, Len(head) + 1) ELSE ""

\* C1: when build_tasks returns, there is one task per seed, in seed order;
\* the id of task k is the prefix, a hyphen and the number k in decimal,
\* padded with zeros to three digits and no further; the ids are pairwise
\* distinct; the path of each task is its id, a hyphen, the slug of its title
\* and ".md" in the output directory; and the paths are pairwise distinct.
C1_IdsAndFilenames ==
    pc = "write" =>
        /\ Len(tasks) = Len(seeds)
        /\ \A k \in 1..Len(tasks) :
              /\ Len(C1_IdDigits(k)) >= 3
              /\ NumberOf(C1_IdDigits(k)) = k
              /\ (Len(C1_IdDigits(k)) > 3 => Ch(C1_IdDigits(k), 1) # "0")
              /\ tasks[k].source = seeds[k].source
              /\ tasks[k].acceptance_criteria[1] = sentence(seeds[k].text)
        /\ Cardinality({tasks[k].task_id : k \in 1..Len(tasks)}) = Len(tasks)
        /\ Cardinality({tasks[k].path : k \in 1..Len(tasks)}) = Len(tasks)
        /\ \A k \in {1, Len(tasks)} :
              tasks[k].path = argv.out_dir \o "/" \o tasks[k].task_id \o "-"
                              \o slugify(tasks[k].title) \o ".md"

\* build_tasks has returned more than 999 tasks whose titles, and so whose
\* slugs, are all the same
C1_Witness ==
    /\ pc = "write"
    /\ Len(tasks) > 999
    /\ tasks[1000].task_id = "TASK-1000"
    /\ tasks[1].title = tasks[1000].title
    /\ tasks[1].path = "/out/TASK-001-a-b-c-d-e-f-g-h-i-j.md"

Aborted == pc = "exit"

\* C2: a run in which a fatal condition has occurred (the initial state is
\* not valid, the file is missing, the document is blank, no section was
\* derived, no seed is left after deduplication) has aborted; a run that has
\* aborted has a status other than 0 and has written no file; and a run that
\* has written a file has met none of the fatal conditions.
C2_AllOrNothing ==
    /\ (pc # "start" /\ argv.initial_state \notin VALID_STATES) => Aborted
    /\ (pc \notin {"start", "read"} /\ argv.prd = None) => Aborted
    /\ (pc \notin {"start", "read", "check"} /\ strip(markdown, Whitespace) = "") => Aborted
    /\ (pc \notin {"start", "read", "check", "parse"} /\ sections = <<>>) => Aborted
    /\ (pc \notin {"start", "read", "check", "parse", "extract"} /\ seeds = <<>>) => Aborted
    /\ Aborted => status \in {Some(1), Some(2)} /\ fs = <<>>
    /\ status = Some(0) => pc = "done"
    /\ fs # <<>> =>
          /\ argv.initial_state \in VALID_STATES
          /\ argv.prd # None /\ strip(argv.prd[1], Whitespace) # ""
          /\ sections # <<>> /\ seeds # <<>>

\* a run has aborted after deduplication left no seed of a document that has
\* sections
C2_Witness ==
    /\ Aborted /\ status = Some(1) /\ fs = <<>>
    /\ sections # <<>> /\ sec_i > Len(sections) /\ seeds = <<>>

\* C3: every section that extract_seeds has been applied to has a seed among
\* the seeds extracted (a seed that carries its source), and when the tasks
\* are built there is one task per seed that is left, task k made of seed k.
C3_Coverage ==
    /\ \A i \in 1..(sec_i - 1) :
          \E k \in 1..Len(all_seeds) : all_seeds[k].source = sections[i].source
    /\ pc \in {"write", "done"} =>
          /\ Len(tasks) = Len(seeds)
          /\ \A k \in 1..Len(tasks) : tasks[k].source = seeds[k].source

\* the key of C4, for the texts of DedupSeeds: the text in lower case without
\* the characters that are not a-z or 0-9
C4_Key(text) ==
    CASE text \in {"Reset password", "reset password.", "RESET-PASSWORD!"} -> "resetpassword"
      [] text = "!!!" -> ""
      [] text = "Log errors" -> "logerrors"
      [] text = "Reset passwords" -> "resetpasswords"

\* the positions of the seeds that are the first of their key, the key not
\* empty
C4_Kept ==
    {i \in 1..Len(all_seeds) :
        /\ C4_Key(all_seeds[i].text) # ""
        /\ \A j \in 1..(i - 1) : C4_Key(all_seeds[j].text) # C4_Key(all_seeds[i].text)}

\* C4: what deduplicate returns is the input without the seeds whose key is
\* empty and without the seeds whose key an earlier seed has, in the order
\* of the input.
C4_FirstPerKey ==
    pc # "extract" =>
        /\ Len(seeds) = Cardinality(C4_Kept)
        /\ \A k \in 1..Len(seeds) : seeds[k] = all_seeds[Nth(C4_Kept, k)]

\* deduplicate was given three seeds: two that differ by case and
\* punctuation only, which it made one of, and one of another key
C4_Witness ==
    /\ pc = "build"
    /\ Len(all_seeds) = 3 /\ Len(seeds) = 2
    /\ all_seeds[1].text = "Reset password" /\ all_seeds[2].text = "reset password."
    /\ all_seeds[3].text = "Reset passwords"

\* text is non-empty and whitespace-normalized
Normalized(text) ==
    /\ text # ""
    /\ \A i \in 1..Len(text) : Ch(text, i) \notin {"\n", "\r", "\t"}
    /\ \A i \in 1..Len(text) : ~HasAt(text, i, "  ")
    /\ Ch(text, 1) # " " /\ Ch(text, Len(text)) # " "

\* the list items of the section extract_seeds was applied to, each cleaned
\* and without its checkbox, the items that are empty then left out
C5_Items == ListCandidates(splitlines(sections[1].body))

\* C5: extract_seeds returns at most 12 seeds, each with the source of the
\* section and a non-empty normalized text; of a body with more than 12 list
\* items it returns 12 seeds, the first 12 list items in their order.
C5_AtMostTwelve ==
    sec_i = 2 =>
        /\ Len(all_seeds) <= 12
        /\ \A k \in 1..Len(all_seeds) :
              all_seeds[k].source = sections[1].source /\ Normalized(all_seeds[k].text)
        /\ Len(C5_Items) > 12 =>
              /\ Len(all_seeds) = 12
              /\ \A k \in 1..12 : all_seeds[k].text = C5_Items[k]

\* C6: cleanup_inline_markdown applied to what it returned returns it
\* unchanged.
C6_Idempotent == Len(ret) = 2 => ret[2] = ret[1]

\* C7 as the specification states it: the run on the document of scenario 1
\* ends with one section "Goals", one seed, and one task with the title
\* "Users must be able to reset their" and a story that starts "As a user, I
\* want to be able to".
C7_Scenario1 ==
    (pc = "done" /\ argv.prd = Some(Scenario1)) =>
        /\ Len(sections) = 1 /\ sections[1].source = "Goals"
        /\ Len(seeds) = 1 /\ seeds[1].text = "Users must be able to reset their password."
        /\ Len(tasks) = 1
        /\ tasks[1].title = "Users must be able to reset their"
        /\ startswith(tasks[1].story, "As a user, I want to be able to")

\* C7, amended: the title is the whole item without its full stop (it has
\* eight words, fewer than the ten a title keeps), and the story keeps the
\* subject and the modal verb of the item.
C7_Scenario1Amended ==
    (pc = "done" /\ argv.prd = Some(Scenario1)) =>
        /\ Len(sections) = 1 /\ sections[1].source = "Goals"
        /\ Len(seeds) = 1 /\ seeds[1].text = "Users must be able to reset their password."
        /\ Len(tasks) = 1
        /\ tasks[1].title = "Users must be able to reset their password"
        /\ tasks[1].story = "As a user, I want to users must be able to reset their password, so that the PRD requirement is delivered successfully."

\* the run on the document of scenario 1 has ended and has written the task
\* and the index
C7_Witness ==
    /\ pc = "done" /\ argv.prd = Some(Scenario1) /\ argv.task_prefix = "TASK"
    /\ Len(fs) = 2 /\ fs[1].path = "/out/TASK-001-users-must-be-able-to-reset-their-password.md"

\* story reads "As ... I want ... so that ..." and ends with . ! or ? (the
\* case of the letters and the commas are not looked at)
StoryForm(story) ==
    LET l == lower(story)
    IN /\ startswith(l, "as ")
       /\ \E i \in 4..Len(l) : \E j \in (i + 1)..Len(l) :
             HasAt(l, i, "i want ") /\ HasAt(l, j, "so that ")
       /\ Ch(l, Len(l)) \in {".", "!", "?"}

\* C8: the story of every task is a sentence of the form "As <actor>, I want
\* <capability>, so that <benefit>" that ends with . ! or ?
C8_StoryForm == \A k \in 1..Len(tasks) : StoryForm(tasks[k].story)

\* the lines of the document that parse_sections was applied to
DocLineSeq == splitlines(markdown)
IsHeadingLine(i) == HeadingMatch(DocLineSeq[i])
LevelOfLine(i) == HeadingLevel(DocLineSeq[i])
TitleOfLine(i) == HeadingTitle(DocLineSeq[i])

\* the heading of line j encloses line i: it is of a strictly shallower
\* level, and no heading between them is of its level or shallower
Encloses(j, i) ==
    /\ j < i /\ IsHeadingLine(j) /\ LevelOfLine(j) < LevelOfLine(i)
    /\ \A m \in (j + 1)..(i - 1) : IsHeadingLine(m) => LevelOfLine(m) > LevelOfLine(j)

\* path is the path of the heading of line i: its last component is the
\* title of the heading, every other one the title of a heading that
\* encloses it
IsPathOf(path, i) ==
    /\ IsHeadingLine(i) /\ LevelOfLine(i) >= 2
    /\ Last(path) = TitleOfLine(i)
    /\ \A c \in 1..(Len(path) - 1) :
          \E j \in 1..(i - 1) : Encloses(j, i) /\ TitleOfLine(j) = path[c]

\* C9: the source of every section that a heading opened is the path of a
\* heading of level 2 or deeper: the title of that heading, after the titles
\* of headings that enclose it and of no other heading.
C9_AncestorPath ==
    pc # "parse" =>
        \A k \in 1..Len(sections) :
            sections[k].source # "General" =>
                \E i \in 1..Len(DocLineSeq) : IsPathOf(split_path(sections[k].source), i)

\* the document has a heading of level 2 or deeper
HasQualifyingHeading ==
    \E i \in 1..Len(DocLineSeq) : IsHeadingLine(i) /\ LevelOfLine(i) >= 2

\* C10: parse_sections returns the one section "General" whose body is the
\* cleaned document exactly when the document has no heading of level 2 or
\* deeper and its cleaned text is not empty; it returns no section when the
\* document has no such heading and its cleaned text is empty; and no section
\* is the section of a heading of level 1.
C10_GeneralFallback ==
    pc # "parse" =>
        /\ sections = <<Section("General", cleanup_inline_markdown(markdown))>>
              <=> (~HasQualifyingHeading /\ cleanup_inline_markdown(markdown) # "")
        /\ (~HasQualifyingHeading /\ cleanup_inline_markdown(markdown) = "") => sections = <<>>
        /\ \A k \in 1..Len(sections) : Last(split_path(sections[k].source)) # "T"

\* the number of words of title: the places where a run of characters other
\* than whitespace starts
C11_Words(title) ==
    Cardinality({i \in 1..Len(title) :
                    Ch(title, i) \notin Whitespace
                    /\ (i = 1 \/ Ch(title, i - 1) \in Whitespace)})

\* text is made of full stops only: nothing of it is left for a title or a
\* capability
C11_OnlyStops(text) == text # "" /\ \A i \in 1..Len(text) : Ch(text, i) = "."

\* title is the last component of the path source, its first letter in
\* upper case
C11_LastOf(title, source) ==
    \E i \in 1..Len(source) :
        /\ i = 1 \/ HasAt(source, i - 3, " > ")
        /\ \A j \in i..Len(source) : ~HasAt(source, j, " > ")
        /\ title = UpperCh(Ch(source, i)) \o From(source, i + 1)

\* text names no actor of the vocabulary, not even inside a word, and has no
\* "that" of an embedded story
C11_NoActor(text) ==
    LET l == lower(text)
    IN \A j \in 1..Len(l) :
          /\ ~HasAt(l, j, "that")
          /\ \A k \in 1..Len(Actors) : ~HasAt(l, j, Actors[k])

C11_DefaultStory ==
    "As a user, I want to deliver the required behavior, "
    \o "so that the PRD requirement is delivered successfully."

\* what C11 says of the task made of seed at position k
C11_TaskOk(k) ==
    LET seed == seeds[k]
        task == tasks[k]
    IN /\ task.title # ""
       /\ C11_Words(task.title) <= 10
       /\ Len(task.acceptance_criteria) = 3
       /\ Len(task.test_cases) = 3
       /\ task.state = argv.initial_state
       /\ C11_OnlyStops(seed.text) =>
             /\ IF seed.source = "" THEN task.title = "Untitled Task"
                ELSE C11_LastOf(task.title, seed.source)
             /\ task.story = C11_DefaultStory
       /\ (\A i \in 1..Len(task.title) : ~IsWord(Ch(task.title, i))) =>
             \E i \in 1..Len(task.path) :
                 From(task.path, i) = "/" \o task.task_id \o "-task.md"
       /\ C11_NoActor(seed.text) => startswith(task.story, "As a user, I want to ")

\* C11: build_tasks makes a task of every seed with a non-empty text: it has
\* a non-empty title of at most 10 words, 3 acceptance criteria, 3 test cases
\* and the initial state it was given, and an empty title, an empty
\* capability, an empty slug and a text without an actor get their defaults;
\* when it returns there is one task per seed
C11_SynthesisTotal ==
    /\ \A k \in 1..Len(seeds) : seeds[k].text # ""
    /\ Len(tasks) <= Len(seeds)
    /\ \A k \in 1..Len(tasks) : C11_TaskOk(k)
    /\ (pc = "write" => Len(tasks) = Len(seeds))

\* build_tasks has returned the tasks of a seed without title and source and
\* of a seed without letters, for the initial state "done"
C11_Witness ==
    /\ pc = "write" /\ Len(tasks) = 2 /\ argv.initial_state = "done"
    /\ seeds[1] = TaskSeed("", ".") /\ tasks[1].title = "Untitled Task"
    /\ tasks[1].state = "done"
    /\ seeds[2].text = "!!!" /\ tasks[2].path = "/out/TASK-002-task.md"

\* the texts of the seeds that extract_seeds returned
C12_Texts == [k \in 1..Len(all_seeds) |-> all_seeds[k].text]

\* C12: what extract_seeds returns comes from one strategy only: the list
\* items of the body (the first 12 of them) when there is one with a text,
\* otherwise the first 4 sentences of 20 characters or more, and when there
\* is neither, the one seed that is the last component of the source
C12_Precedence ==
    sec_i = 2 =>
        LET body == sections[1].body
            sents == split_sentences(body)
        IN IF C5_Items # <<>>
           THEN C12_Texts = Take(C5_Items, 12)
           ELSE IF sents # <<>>
           THEN C12_Texts = Take(sents, 4)
           ELSE C12_Texts = <<Last(split_path(sections[1].source))>>

\* the actor that a word of ActorWords is, once its case and the punctuation
\* around it are set aside, or "" when the word is no actor
C13_ActorOf ==
    [w \in ActorWords |->
        CASE w = "admin" -> "admin"
          [] w = "Administrator," -> "administrator"
          [] w = "(user)" -> "user"
          [] w = "Manager" -> "manager"
          [] w = "developer's" -> "developer"
          [] OTHER -> ""]

C13_Vocabulary ==
    <<"administrator", "admin", "customer", "operator", "manager", "analyst",
      "developer", "user">>

\* the earliest entry of the vocabulary that is a word of ws, or "user"
C13_Expected(ws) ==
    LET found == {k \in 1..Len(C13_Vocabulary) :
                     \E i \in 1..Len(ws) : C13_ActorOf[ws[i]] = C13_Vocabulary[k]}
    IN IF found = {} THEN "user"
       ELSE C13_Vocabulary[CHOOSE k \in found : \A m \in found : k <= m]

\* C13: infer_actor returns the earliest entry of the vocabulary that is a
\* whole word of the text, wherever the words are in the text and whatever
\* their case, and "user" when no entry is a whole word of it
C13_EarliestActor ==
    ret # <<>> =>
        \A ws \in LineSeqs(ActorWords, MaxActorWords) :
            join(" ", ws) = arg => ret[1] = C13_Expected(ws)

\* infer_actor was applied to a text that names "user" before "admin"
C13_Witness == arg = "(user) admin" /\ ret = <<"admin">>

\* the directory of a file: its path up to the last "/"
C14_DirOf(path) ==
    LET m == CHOOSE j \in 1..Len(path) :
                 Ch(path, j) = "/" /\ \A k \in (j + 1)..Len(path) : Ch(path, k) # "/"
    IN SubSeq(path, 1, m - 1)

\* the file that link names for a reader in the directory dir: every
\* leading "../" of the link goes up one directory
C14_Resolve(dir, link) ==
    LET n == CHOOSE k \in 0..Len(link) :
                 /\ \A j \in 0..(k - 1) : HasAt(link, 3 * j + 1, "../")
                 /\ ~HasAt(link, 3 * k + 1, "../")
        d == PathParts(dir)
        up == SubSeq(d, 1, Len(d) - n)
    IN (IF up = <<>> THEN "" ELSE "/" \o join("/", up)) \o "/" \o From(link, 3 * n + 1)

\* the positions of fs at which the index was written
C14_Index == {i \in 1..Len(fs) : fs[i].kind = "index"}

\* C14: the task files are written in synthesis order; the index is written
\* once, after the file of every task, and a run that succeeded has written
\* it; it has one row per task, in synthesis order, whose link names, from
\* the directory of the index, the file written for that task
C14_IndexAfterTasks ==
    /\ \A k \in 1..Len(fs) :
           fs[k].kind = "task" => k <= Len(tasks) /\ fs[k].path = tasks[k].path
    /\ status = Some(0) => C14_Index # {}
    /\ \A i \in C14_Index :
           /\ i = Len(fs) /\ i = Len(tasks) + 1
           /\ \A k \in 1..Len(tasks) : fs[k].kind = "task"
           /\ fs[i].path = argv.tasklist
           /\ Len(fs[i].rows) = Len(tasks)
           /\ \A k \in 1..Len(tasks) :
                  /\ fs[i].rows[k].label = tasks[k].task_id \o " - " \o tasks[k].title
                  /\ fs[i].rows[k].state = tasks[k].state
                  /\ C14_Resolve(C14_DirOf(fs[i].path), fs[i].rows[k].link) = fs[k].path

\* a run has succeeded with two task files and then an index in another
\* directory that links to both
C14_Witness ==
    /\ pc = "done" /\ status = Some(0) /\ Len(fs) = 3
    /\ fs[3].kind = "index" /\ fs[3].path = "/docs/plan/INDEX.md"
    /\ fs[3].rows[1].link = "../../out/TASK-001-reset-password.md"
    /\ fs[3].rows[2].link = "../../out/TASK-002-log-errors.md"

=============================================================================
